---- MODULE Spec2Model ----
(***************************************************************************)
(* A model of BcBData.py: the SGS series fetchers (get_series,             *)
(* get_multiple_series), the market-expectations query builder and fetcher *)
(* (create_query_url, get_market_expectations) and the series transforms   *)
(* (mom2index, index2yoy, mom2yoy).                                        *)
(*                                                                         *)
(* Text is modelled as a sequence of one-character strings, so that the    *)
(* replace calls of the code act on characters.  A list object of the      *)
(* caller is a variable of its own; a local name of a function is another. *)
(***************************************************************************)
EXTENDS Integers, Sequences, FiniteSets, TLC

VARIABLES
    code_list,    \* the caller's code list object
    name_list,    \* the caller's name list object
    pc,           \* where get_multiple_series stands: idle, loop, returned, raised
    names,        \* the local name name_list of get_multiple_series after lines 57-61
    k,            \* number of (code, name) pairs of the zip the loop has consumed
    requested,    \* the get_series calls of the current call, in order: <<code, name>>
    result,       \* the columns of the DataFrame `result`, or NoResult
    hist,         \* history: the lists as first built, as given to the current call, ...
    frequency,    \* argument frequency of create_query_url / get_market_expectations
    Indicators,   \* argument Indicators (None, or a list of indicator names)
    start,        \* argument start (None, or a date string)
    end,          \* argument end (None, or a date string)
    op,           \* the function that was called: none, create_query_url, get_market_expectations
    raised,       \* the exception the call ended with, or NoError
    url,          \* the url the call built (empty when it raised first)
    http,         \* the URLs requested over HTTP by pd.read_csv, in order
    raw_ref,      \* column DataReferencia as the service sent it
    df_ref,       \* column DataReferencia of the returned DataFrame
    data,         \* argument of a transform: a Series or a DataFrame
    top,          \* the transform that was called: none, mom2index, index2yoy, mom2yoy
    traised,      \* the exception the transform ended with, or NoError
    tout          \* the Series or DataFrame the transform returned

fvars == <<code_list, name_list, pc, names, k, requested, result, hist>>

evars == <<frequency, Indicators, start, end, op, raised, url, http, raw_ref, df_ref>>

tvars == <<data, top, traised, tout>>

vars == <<fvars, evars, tvars>>

-----------------------------------------------------------------------------
(* Bounds of the model *)

MaxCodes == 3
MaxNames == 3
MaxCalls == 2

Codes == {433, 4389}
Names == {"a", "b"}

Min(a, b) == IF a < b THEN a ELSE b

SeqsUpTo(S, n) == UNION {[1..m -> S] : m \in 0..n}

NoResult == "NoResult"

-----------------------------------------------------------------------------
(* get_multiple_series, lines 49-70 *)

\* A slip: range(0, n1-n2) in place of range(1, n1-n2+1).
name_completeFromZero(n1, n2) == [j \in 1..(n1 - n2) |-> "unnamed_" \o ToString(j - 1)]

\* Line 60: f'unnamed_{i}' for i in range(1, n1-n2+1)
name_complete(n1, n2) == [j \in 1..(n1 - n2) |-> "unnamed_" \o ToString(j)]

\* A slip: the elif branch of lines 59-61 left out.
ReconcileNoPadding(codes, nms) ==
    LET n1 == Len(codes)
        n2 == Len(nms)
    IN  IF n1 < n2 THEN SubSeq(nms, 1, n1)
        ELSE nms

\* Lines 54-61: the value the local name name_list holds after them.
Reconcile(codes, nms) ==
    LET n1 == Len(codes)
        n2 == Len(nms)
    IN  IF n1 < n2 THEN SubSeq(nms, 1, n1)
        ELSE IF n1 > n2 THEN nms \o name_complete(n1, n2)
        ELSE nms

\* What lines 57-61 leave in the caller's list object: name_list[:n1] builds a
\* new list and rebinds the local name, name_list.extend works in place.
CallerNamesAfter(codes, nms) ==
    IF Len(codes) > Len(nms) THEN nms \o name_complete(Len(codes), Len(nms))
    ELSE nms

\* zip(code_list, name_list): pairs up to the shorter of the two.
Zip(codes, nms) == [j \in 1..Min(Len(codes), Len(nms)) |-> <<codes[j], nms[j]>>]

\* Lines 54-63: a call starts, the lists are reconciled, result is empty.
Call ==
    /\ pc \in {"idle", "returned", "raised"}
    /\ hist.calls < MaxCalls
    /\ names' = Reconcile(code_list, name_list)
    /\ name_list' = CallerNamesAfter(code_list, name_list)
    /\ pc' = "loop"
    /\ k' = 0
    /\ requested' = <<>>
    /\ result' = <<>>
    /\ hist' = [hist EXCEPT !.calls = @ + 1,
                            !.given = name_list,
                            !.first = IF hist.calls = 0
                                      THEN Zip(code_list, Reconcile(code_list, name_list))
                                      ELSE @]
    /\ UNCHANGED <<code_list, evars, tvars>>

\* Lines 65-68: get_series(code, name) answers, its column is appended.
FetchOk ==
    /\ pc = "loop"
    /\ k < Len(Zip(code_list, names))
    /\ requested' = Append(requested, Zip(code_list, names)[k + 1])
    /\ result' = Append(result, Zip(code_list, names)[k + 1][2])
    /\ k' = k + 1
    /\ UNCHANGED <<code_list, name_list, pc, names, hist, evars, tvars>>

\* A slip: the exception of get_series swallowed, the loop goes on.
FetchFailSwallowed ==
    /\ pc = "loop"
    /\ k < Len(Zip(code_list, names))
    /\ requested' = Append(requested, Zip(code_list, names)[k + 1])
    /\ k' = k + 1
    /\ UNCHANGED <<code_list, name_list, pc, names, result, hist, evars, tvars>>

\* Line 66: get_series raises (transport or parse failure); nothing catches it.
FetchFail ==
    /\ pc = "loop"
    /\ k < Len(Zip(code_list, names))
    /\ requested' = Append(requested, Zip(code_list, names)[k + 1])
    /\ result' = NoResult
    /\ pc' = "raised"
    /\ UNCHANGED <<code_list, name_list, names, k, hist, evars, tvars>>

\* Line 70: the zip is exhausted, the table is returned.
Return ==
    /\ pc = "loop"
    /\ k = Len(Zip(code_list, names))
    /\ pc' = "returned"
    /\ UNCHANGED <<code_list, name_list, names, k, requested, result, hist, evars, tvars>>

NextFetch == Call \/ FetchOk \/ FetchFail \/ Return

-----------------------------------------------------------------------------
(* Text: a string is a sequence of one-character strings *)

\* The positions where old occurs in s.
Occurrences(s, old) ==
    {j \in 1..(Len(s) - Len(old) + 1) : SubSeq(s, j, j + Len(old) - 1) = old}

RECURSIVE ReplaceFrom(_, _, _, _, _)
\* s[i..] with the leftmost occurrence of old at or after i replaced (occ holds
\* the occurrences of old in s), then the rest after that occurrence.
ReplaceFrom(s, occ, old, new, i) ==
    LET left == {j \in occ : j >= i}
    IN  IF left = {} THEN SubSeq(s, i, Len(s))
        ELSE LET j == CHOOSE m \in left : \A n \in left : m <= n
             IN  SubSeq(s, i, j - 1) \o new
                 \o ReplaceFrom(s, occ, old, new, j + Len(old))

\* str.replace(old, new): every non-overlapping occurrence, leftmost first.
Replace(s, old, new) == ReplaceFrom(s, Occurrences(s, old), old, new, 1)

RECURSIVE Join(_, _)
\* sep.join(parts)
Join(sep, parts) ==
    IF Len(parts) = 0 THEN <<>>
    ELSE IF Len(parts) = 1 THEN parts[1]
    ELSE parts[1] \o sep \o Join(sep, Tail(parts))

\* An optional argument: None, or a value.
None == [given |-> FALSE, v |-> <<>>]
Some(x) == [given |-> TRUE, v |-> x]

\* A slip: `is not None` in place of the truth value.
TruthyNotNone(arg) == arg.given

\* Lines 90, 94, 98: Python's truth value of an optional list or string; None
\* and empty are false.
Truthy(arg) == arg.given /\ Len(arg.v) > 0

-----------------------------------------------------------------------------
(* create_query_url, lines 73-111 *)

\* 'https://olinda.bcb.gov.br/olinda/servico/Expectativas/versao/v1/odata/'
UrlRoot ==
    <<"h","t","t","p","s",":","/","/","o","l","i","n","d","a",".","b","c",
      "b",".","g","o","v",".","b","r","/","o","l","i","n","d","a","/","s",
      "e","r","v","i","c","o","/","E","x","p","e","c","t","a","t","i","v",
      "a","s","/","v","e","r","s","a","o","/","v","1","/","o","d","a","t",
      "a","/">>

\* Lines 75-81.
urls_dict ==
    "annual" :> (UrlRoot \o
        <<"E","x","p","e","c","t","a","t","i","v","a","s","M","e","r","c",
          "a","d","o","A","n","u","a","i","s">>) @@
    "quarterly" :> (UrlRoot \o
        <<"E","x","p","e","c","t","a","t","i","v","a","s","M","e","r","c",
          "a","d","o","T","r","i","m","e","s","t","r","a","i","s">>) @@
    "monthly" :> (UrlRoot \o
        <<"E","x","p","e","c","t","a","t","i","v","a","M","e","r","c","a",
          "d","o","M","e","n","s","a","i","s">>) @@
    "inflation-12-months" :> (UrlRoot \o
        <<"E","x","p","e","c","t","a","t","i","v","a","s","M","e","r","c",
          "a","d","o","I","n","f","l","a","c","a","o","1","2","M","e","s",
          "e","s">>) @@
    "top5s-monthly" :> (UrlRoot \o
        <<"E","x","p","e","c","t","a","t","i","v","a","s","M","e","r","c",
          "a","d","o","T","o","p","5","M","e","n","s","a","i","s">>) @@
    "top5s-annual" :> (UrlRoot \o
        <<"E","x","p","e","c","t","a","t","i","v","a","s","M","e","r","c",
          "a","d","o","T","o","p","5","A","n","u","a","i","s">>) @@
    "institutions" :> (UrlRoot \o
        <<"E","x","p","e","c","t","a","t","i","v","a","s","M","e","r","c",
          "a","d","o","I","n","s","t","i","t","u","i","c","o","e","s">>)

NoError == "NoError"
FrequencyError == "Frequency doesn't exist"

\* Line 91: ' or '.join([f"Indicador eq '{i}'" for i in Indicators])
indic_filter(inds) ==
    Join(<<" ","o","r"," ">>,
         [j \in 1..Len(inds) |->
            <<"I","n","d","i","c","a","d","o","r"," ","e","q"," ","'">>
            \o inds[j] \o <<"'">>])

\* Line 95: f"Data ge '{start}'"
start_filter(s) == <<"D","a","t","a"," ","g","e"," ","'">> \o s \o <<"'">>

\* Line 99: f"Data le '{end}'"
end_filter(e) == <<"D","a","t","a"," ","l","e"," ","'">> \o e \o <<"'">>

\* Lines 88-100: the list filters.
filters(inds, s, e) ==
    (IF Truthy(inds) THEN <<indic_filter(inds.v)>> ELSE <<>>)
    \o (IF Truthy(s) THEN <<start_filter(s.v)>> ELSE <<>>)
    \o (IF Truthy(e) THEN <<end_filter(e.v)>> ELSE <<>>)

\* Line 102: ' and '.join(filters).replace(' ', '%20')
filters_string(inds, s, e) ==
    Replace(Join(<<" ","a","n","d"," ">>, filters(inds, s, e)),
            <<" ">>, <<"%","2","0">>)

\* Line 104.
select ==
    <<"I","n","d","i","c","a","d","o","r",",","D","a","t","a",",","D","a",
      "t","a","R","e","f","e","r","e","n","c","i","a",",","M","e","d","i",
      "a",",","M","e","d","i","a","n","a",",","D","e","s","v","i","o","P",
      "a","d","r","a","o",",","M","i","n","i","m","o",",","M","a","x","i",
      "m","o",",","n","u","m","e","r","o","R","e","s","p","o","n","d","e",
      "n","t","e","s",",","b","a","s","e","C","a","l","c","u","l","o">>

\* Line 106.
query(inds, s, e) ==
    <<"?","$","t","o","p","=","1","0","0","0","0","0","0","0","0","&">>
    \o <<"$","f","i","l","t","e","r","=">> \o filters_string(inds, s, e)
    \o <<"&">>
    \o <<"$","f","o","r","m","a","t","=","t","e","x","t","/","c","s","v","&">>
    \o <<"$","s","e","l","e","c","t","=">> \o select

\* Line 108: url = url_base + query, before line 109 rewrites it.
url_assembled(f, inds, s, e) == urls_dict[f] \o query(inds, s, e)

\* Line 109.
Reescape(u) ==
    Replace(Replace(Replace(u,
        <<"â">>, <<"%","C","3","%","A","2">>),
        <<"ç","ã">>, <<"%","C","3","%","A","7","%","C","3","%","A","3","o">>),
        <<"í">>, <<"%","C","3","%","A","D">>)

\* A slip: urls_dict.get(frequency, <the monthly url>) in place of the check.
create_query_urlDefaultBase(f, inds, s, e) ==
    [raised |-> NoError,
     url |-> Reescape(url_assembled(IF f \in DOMAIN urls_dict THEN f ELSE "monthly",
                                    inds, s, e))]

\* Lines 83-111: what the call raises, and the url it returns.
create_query_url(f, inds, s, e) ==
    IF f \notin DOMAIN urls_dict
    THEN [raised |-> FrequencyError, url |-> <<>>]
    ELSE [raised |-> NoError, url |-> Reescape(url_assembled(f, inds, s, e))]

-----------------------------------------------------------------------------
(* Inputs of the expectations functions *)

MaxIndicators == 2

IndicatorNames ==
    { <<"C","â","m","b","i","o">>,
      <<"P","r","o","d","u","ç","ã","o"," ","i","n","d","u","s","t","r","i","a","l">>,
      <<"D","í","v","i","d","a"," ","p","ú","b","l","i","c","a">> }

IndicatorArgs == {None} \cup {Some(l) : l \in SeqsUpTo(IndicatorNames, MaxIndicators)}

StartArgs == {None, Some(<<>>), Some(<<"2","0","2","1","-","0","1","-","0","1">>)}

EndArgs == {None, Some(<<>>), Some(<<"2","0","2","1","-","1","2","-","3","1">>)}

FrequencyArgs == DOMAIN urls_dict \cup {"weekly", "Monthly"}

\* A call of create_query_url.
CreateQueryUrl ==
    /\ op = "none"
    /\ op' = "create_query_url"
    /\ LET built == create_query_url(frequency, Indicators, start, end)
       IN  /\ raised' = built.raised
           /\ url' = built.url
    /\ UNCHANGED <<frequency, Indicators, start, end, http, raw_ref, df_ref>>
    /\ UNCHANGED <<fvars, tvars>>

-----------------------------------------------------------------------------
(* get_market_expectations, lines 114-135 *)

TransportError == "TransportError"
DateParseError == "DateParseError"

Digits == {"0", "1", "2", "3", "4", "5", "6", "7", "8", "9"}

DigitVal ==
    "0" :> 0 @@ "1" :> 1 @@ "2" :> 2 @@ "3" :> 3 @@ "4" :> 4 @@
    "5" :> 5 @@ "6" :> 6 @@ "7" :> 7 @@ "8" :> 8 @@ "9" :> 9

IsDigits(s) == Len(s) > 0 /\ \A j \in 1..Len(s) : s[j] \in Digits

RECURSIVE ToInt(_)
\* int(s) of a string of decimal digits
ToInt(s) ==
    IF Len(s) = 0 THEN 0
    ELSE 10 * ToInt(SubSeq(s, 1, Len(s) - 1)) + DigitVal[s[Len(s)]]

\* A parsed date is <<year, month, day>>; NoDate when the text does not parse.
NoDate == <<0, 0, 0>>

\* Line 126: pd.to_datetime(text, format='%m/%Y')
ParseMonthYear(s) ==
    LET slash == {j \in 1..Len(s) : s[j] = "/"}
        j == CHOOSE m \in slash : TRUE
        mm == SubSeq(s, 1, j - 1)
        yy == SubSeq(s, j + 1, Len(s))
    IN  IF /\ Cardinality(slash) = 1
           /\ IsDigits(mm) /\ Len(mm) <= 2 /\ ToInt(mm) \in 1..12
           /\ IsDigits(yy) /\ Len(yy) = 4
        THEN <<ToInt(yy), ToInt(mm), 1>>
        ELSE NoDate

\* Line 129: pd.to_datetime(text, format='%Y')
ParseYear(s) ==
    IF IsDigits(s) /\ Len(s) = 4 THEN <<ToInt(s), 1, 1>> ELSE NoDate

\* The end of the run of digits that starts at position i of s.
DigitRunEnd(s, i) ==
    CHOOSE e \in i..Len(s) :
        /\ \A j \in i..e : s[j] \in Digits
        /\ (e = Len(s) \/ s[e + 1] \notin Digits)

\* Whether the pattern (Q\d) (\d+) matches at position i of s.
QuarterMatchAt(s, i) ==
    /\ i + 3 <= Len(s)
    /\ s[i] = "Q"
    /\ s[i + 1] \in Digits
    /\ s[i + 2] = " "
    /\ s[i + 3] \in Digits

RECURSIVE QuarterSubFrom(_, _)
QuarterSubFrom(s, i) ==
    IF i > Len(s) THEN <<>>
    ELSE IF QuarterMatchAt(s, i)
         THEN SubSeq(s, i + 3, DigitRunEnd(s, i + 3)) \o <<"-">> \o SubSeq(s, i, i + 1)
              \o QuarterSubFrom(s, DigitRunEnd(s, i + 3) + 1)
         ELSE <<s[i]>> \o QuarterSubFrom(s, i + 1)

\* Line 132: ('Q' + text).str.replace('/', ' ').str.replace(r'(Q\d) (\d+)', r'\2-\1'),
\* the second replace as the regular-expression substitution it is written as.
qs(s) == QuarterSubFrom(Replace(<<"Q">> \o s, <<"/">>, <<" ">>), 1)

\* A slip: the quarter number taken for the month.
QuarterStartAsMonth(s) ==
    IF /\ Len(s) = 7
       /\ IsDigits(SubSeq(s, 1, 4))
       /\ s[5] = "-" /\ s[6] = "Q"
       /\ s[7] \in {"1", "2", "3", "4"}
    THEN <<ToInt(SubSeq(s, 1, 4)), DigitVal[s[7]], 1>>
    ELSE NoDate

\* Line 133: pd.PeriodIndex(text, freq='Q').to_timestamp() of '<year>-Q<n>':
\* the first day of the quarter.
QuarterStart(s) ==
    IF /\ Len(s) = 7
       /\ IsDigits(SubSeq(s, 1, 4))
       /\ s[5] = "-" /\ s[6] = "Q"
       /\ s[7] \in {"1", "2", "3", "4"}
    THEN <<ToInt(SubSeq(s, 1, 4)), 3 * (DigitVal[s[7]] - 1) + 1, 1>>
    ELSE NoDate

\* Lines 125-133: the column DataReferencia after the frequency's conversion,
\* and the error raised when a value does not parse.
parse_reference(f, col) ==
    LET conv == [j \in 1..Len(col) |->
                    IF f = "monthly" THEN ParseMonthYear(col[j])
                    ELSE IF f = "annual" THEN ParseYear(col[j])
                    ELSE IF f = "quarterly" THEN QuarterStart(qs(col[j]))
                    ELSE col[j]]
    IN  IF f \in {"monthly", "annual", "quarterly"}
           /\ \E j \in 1..Len(col) : conv[j] = NoDate
        THEN [raised |-> DateParseError, col |-> <<>>]
        ELSE [raised |-> NoError, col |-> conv]

MaxRows == 1

\* Values of DataReferencia as the service writes them.
RawRefs ==
    { <<"2","/","2","0","2","1">>,
      <<"4","/","2","0","2","2">>,
      <<"1","1","/","2","0","2","1">>,
      <<"2","0","2","1">> }

\* A call of get_market_expectations: line 120 builds the url (and may raise),
\* line 122 requests it, lines 123-135 convert the columns.
GetMarketExpectations ==
    /\ op = "none"
    /\ op' = "get_market_expectations"
    /\ LET built == create_query_url(frequency, Indicators, start, end)
       IN  IF built.raised # NoError
           THEN /\ raised' = built.raised
                /\ UNCHANGED <<url, http, raw_ref, df_ref>>
           ELSE /\ url' = built.url
                /\ http' = Append(http, built.url)
                /\ \/ /\ raised' = TransportError
                      /\ UNCHANGED <<raw_ref, df_ref>>
                   \/ \E col \in SeqsUpTo(RawRefs, MaxRows) :
                        /\ raw_ref' = col
                        /\ raised' = parse_reference(frequency, col).raised
                        /\ df_ref' = parse_reference(frequency, col).col
    /\ UNCHANGED <<frequency, Indicators, start, end>>
    /\ UNCHANGED <<fvars, tvars>>

NextExpect == CreateQueryUrl \/ GetMarketExpectations

-----------------------------------------------------------------------------
(* Numbers of a Series: missing (NaN), a rational n/d in lowest terms with   *)
(* d > 0, or an infinity of sign n.  Arithmetic is exact on the rationals    *)
(* and follows IEEE 754 where NaN, a zero divisor or an infinity comes in.   *)

Abs(n) == IF n < 0 THEN -n ELSE n
Sign(n) == IF n < 0 THEN -1 ELSE 1

RECURSIVE GCD(_, _)
GCD(a, b) == IF b = 0 THEN a ELSE GCD(b, a % b)

NaN == [k |-> "nan", n |-> 0, d |-> 0]
Inf(sign) == [k |-> "inf", n |-> sign, d |-> 0]
Num(n, d) ==
    LET g == GCD(Abs(n), Abs(d))
    IN  [k |-> "num", n |-> Sign(d) * (n \div g), d |-> Abs(d) \div g]
Whole(n) == Num(n, 1)

IsNA(x) == x.k = "nan"

\* x + c for an integer c
AddInt(x, c) ==
    IF x.k = "num" THEN Num(x.n + c * x.d, x.d) ELSE x

Mul(x, y) ==
    IF x.k = "nan" \/ y.k = "nan" THEN NaN
    ELSE IF x.k = "num" /\ y.k = "num" THEN Num(x.n * y.n, x.d * y.d)
    ELSE IF x.n = 0 \/ y.n = 0 THEN NaN
    ELSE Inf(Sign(x.n) * Sign(y.n))

Div(x, y) ==
    IF x.k = "nan" \/ y.k = "nan" THEN NaN
    ELSE IF x.k = "num" /\ y.k = "num"
         THEN IF y.n # 0 THEN Num(x.n * y.d, x.d * y.n)
              ELSE IF x.n = 0 THEN NaN ELSE Inf(Sign(x.n))
    ELSE IF x.k = "inf" /\ y.k = "inf" THEN NaN
    ELSE IF x.k = "inf" THEN Inf(Sign(x.n) * Sign(y.n))
    ELSE Whole(0)

-----------------------------------------------------------------------------
(* mom2index, index2yoy, mom2yoy: lines 138-179.  A Series is a sequence of  *)
(* entries [t |-> label, v |-> number]; a DataFrame maps each column name to *)
(* a Series over the shared index.                                           *)

IndexError == "IndexError"

Entry(t, v) == [t |-> t, v |-> v]

\* series.dropna()
dropna(series) == SelectSeq(series, LAMBDA e : ~IsNA(e.v))

RECURSIVE cumprod(_)
\* series.cumprod() of a Series without missing values
cumprod(series) ==
    IF Len(series) <= 1 THEN series
    ELSE LET before == cumprod(SubSeq(series, 1, Len(series) - 1))
             last == series[Len(series)]
         IN  Append(before, Entry(last.t, Mul(before[Len(before)].v, last.v)))

\* Lines 145-149: the inner function _mom2index.  index.iloc[0] of an empty
\* Series raises IndexError.
mom2index_(series) ==
    LET index == cumprod([j \in 1..Len(dropna(series)) |->
                     Entry(dropna(series)[j].t, AddInt(dropna(series)[j].v, 1))])
    IN  IF Len(index) = 0
        THEN [raised |-> IndexError, s |-> <<>>]
        ELSE [raised |-> NoError,
              s |-> [j \in 1..Len(index) |->
                        Entry(index[j].t, Div(index[j].v, index[1].v))]]

Labels(series) == {series[j].t : j \in 1..Len(series)}

\* The labels of a set, in ascending order.
RECURSIVE Sorted(_)
Sorted(S) ==
    IF S = {} THEN <<>>
    ELSE LET m == CHOOSE x \in S : \A y \in S : x <= y
         IN  <<m>> \o Sorted(S \ {m})

\* The value of a Series at a label, NaN where the label is absent.
At(series, t) ==
    IF t \in Labels(series)
    THEN (CHOOSE e \in {series[j] : j \in 1..Len(series)} : e.t = t).v
    ELSE NaN

\* pd.concat(columns, axis=1): the outer join of the columns on their labels
\* (a date index comes out sorted), NaN where a column has no entry.
concat(cols) ==
    LET all == Sorted(UNION {Labels(cols[c]) : c \in DOMAIN cols})
    IN  [c \in DOMAIN cols |->
            [j \in 1..Len(all) |-> Entry(all[j], At(cols[c], all[j]))]]

\* Lines 151-160: a Series goes through _mom2index, a DataFrame column by
\* column; an exception of any column ends the call.
mom2index(d) ==
    LET each == [c \in DOMAIN d.cols |-> mom2index_(d.cols[c])]
    IN  IF \E c \in DOMAIN each : each[c].raised # NoError
        THEN [raised |-> IndexError, out |-> [kind |-> d.kind, cols |-> <<>>]]
        ELSE [raised |-> NoError,
              out |-> [kind |-> d.kind,
                       cols |-> IF d.kind = "series"
                                THEN [c \in DOMAIN each |-> each[c].s]
                                ELSE concat([c \in DOMAIN each |-> each[c].s])]]

\* A slip: shift(-periods), the values move up.
shiftUp(series, periods) ==
    [j \in 1..Len(series) |->
        Entry(series[j].t,
              IF j + periods <= Len(series) THEN series[j + periods].v ELSE NaN)]

\* series.shift(periods): every value moves down by periods rows, the labels stay.
shift(series, periods) ==
    [j \in 1..Len(series) |->
        Entry(series[j].t, IF j > periods THEN series[j - periods].v ELSE NaN)]

\* Line 168: the 12 of series.shift(12)
YoyPeriods == 12

\* Line 168: series / series.shift(12) - 1, column by column.
index2yoy(d) ==
    [kind |-> d.kind,
     cols |-> [c \in DOMAIN d.cols |->
                [j \in 1..Len(d.cols[c]) |->
                    Entry(d.cols[c][j].t,
                          AddInt(Div(d.cols[c][j].v,
                                     shift(d.cols[c], YoyPeriods)[j].v), -1))]]]

\* Line 179: index2yoy(mom2index(series))
mom2yoy(d) ==
    IF mom2index(d).raised # NoError
    THEN [raised |-> mom2index(d).raised, out |-> mom2index(d).out]
    ELSE [raised |-> NoError, out |-> index2yoy(mom2index(d).out)]

Mom2Index ==
    /\ top = "none"
    /\ top' = "mom2index"
    /\ traised' = mom2index(data).raised
    /\ tout' = mom2index(data).out
    /\ UNCHANGED <<data, fvars, evars>>

Index2Yoy ==
    /\ top = "none"
    /\ top' = "index2yoy"
    /\ traised' = NoError
    /\ tout' = index2yoy(data)
    /\ UNCHANGED <<data, fvars, evars>>

Mom2Yoy ==
    /\ top = "none"
    /\ top' = "mom2yoy"
    /\ traised' = mom2yoy(data).raised
    /\ tout' = mom2yoy(data).out
    /\ UNCHANGED <<data, fvars, evars>>

NextTransform == Mom2Index \/ Index2Yoy \/ Mom2Yoy

-----------------------------------------------------------------------------
(* Inputs of the transforms *)

MaxLen == 3
MaxTableRows == 2
MaxBeyond == 2
PatternLen == 5

\* Month-over-month changes: missing, -100 %, -50 %, 0 %, +100 %.
Moms == {NaN, Whole(-1), Num(-1, 2), Whole(0), Whole(1)}

\* Month-over-month changes of a DataFrame column: missing, -50 %, +100 %.
TableMoms == {NaN, Num(-1, 2), Whole(1)}

\* Values of the long series: missing, 0, 2.
Levels == {NaN, Whole(0), Whole(2)}

ColumnNames == {"x", "y"}

AsSeries(vals) == [j \in 1..Len(vals) |-> Entry(j, vals[j])]

ShortSeries ==
    {[kind |-> "series", cols |-> [c \in {"value"} |-> AsSeries(vals)]] :
        vals \in SeqsUpTo(Moms, MaxLen)}

Tables ==
    UNION {{[kind |-> "table", cols |-> [c \in ColumnNames |-> AsSeries(f[c])]] :
               f \in [ColumnNames -> [1..n -> TableMoms]]} : n \in 0..MaxTableRows}

\* Series longer than twelve rows: a pattern of PatternLen levels, repeated.
LongSeries ==
    {[kind |-> "series",
      cols |-> [c \in {"value"} |->
                 AsSeries([j \in 1..n |-> pat[((j - 1) % PatternLen) + 1]])]] :
        pat \in [1..PatternLen -> Levels],
        n \in (YoyPeriods + 1)..(YoyPeriods + MaxBeyond)}

-----------------------------------------------------------------------------
(* The specifications: each draws the inputs of one group of functions and   *)
(* leaves the other groups idle.                                             *)

InitFetch ==
    /\ code_list \in SeqsUpTo(Codes, MaxCodes)
    /\ name_list \in SeqsUpTo(Names, MaxNames)
    /\ pc = "idle"
    /\ names = <<>>
    /\ k = 0
    /\ requested = <<>>
    /\ result = NoResult
    /\ hist = [calls |-> 0, codes |-> code_list, names |-> name_list,
               given |-> name_list, first |-> <<>>]
    /\ frequency = "annual"
    /\ Indicators = None
    /\ start = None
    /\ end = None
    /\ op = "none"
    /\ raised = NoError
    /\ url = <<>>
    /\ http = <<>>
    /\ raw_ref = <<>>
    /\ df_ref = <<>>
    /\ data = [kind |-> "series", cols |-> <<>>]
    /\ top = "none"
    /\ traised = NoError
    /\ tout = [kind |-> "series", cols |-> <<>>]

Spec == InitFetch /\ [][NextFetch]_vars

InitExpect ==
    /\ frequency \in FrequencyArgs
    /\ Indicators \in IndicatorArgs
    /\ start \in StartArgs
    /\ end \in EndArgs
    /\ op = "none"
    /\ raised = NoError
    /\ url = <<>>
    /\ http = <<>>
    /\ raw_ref = <<>>
    /\ df_ref = <<>>
    /\ code_list = <<>>
    /\ name_list = <<>>
    /\ pc = "idle"
    /\ names = <<>>
    /\ k = 0
    /\ requested = <<>>
    /\ result = NoResult
    /\ hist = [calls |-> 0, codes |-> <<>>, names |-> <<>>,
               given |-> <<>>, first |-> <<>>]
    /\ data = [kind |-> "series", cols |-> <<>>]
    /\ top = "none"
    /\ traised = NoError
    /\ tout = [kind |-> "series", cols |-> <<>>]

SpecExpect == InitExpect /\ [][NextExpect]_vars

InitTransform ==
    /\ data \in ShortSeries \cup Tables \cup LongSeries
    /\ top = "none"
    /\ traised = NoError
    /\ tout = [kind |-> "series", cols |-> <<>>]
    /\ frequency = "annual"
    /\ Indicators = None
    /\ start = None
    /\ end = None
    /\ op = "none"
    /\ raised = NoError
    /\ url = <<>>
    /\ http = <<>>
    /\ raw_ref = <<>>
    /\ df_ref = <<>>
    /\ code_list = <<>>
    /\ name_list = <<>>
    /\ pc = "idle"
    /\ names = <<>>
    /\ k = 0
    /\ requested = <<>>
    /\ result = NoResult
    /\ hist = [calls |-> 0, codes |-> <<>>, names |-> <<>>,
               given |-> <<>>, first |-> <<>>]

SpecTransform == InitTransform /\ [][NextTransform]_vars

-----------------------------------------------------------------------------
(* Properties of get_multiple_series, under Spec *)

\* In a call, or after it: the call is under way or has ended.
InCall == pc \in {"loop", "returned", "raised"}

\* The call was given fewer names than codes.
FewerNames == Len(hist.given) < Len(code_list)

\* C2 as stated: when get_multiple_series is called with fewer names than codes,
\* only the first len(names) codes are requested, each under its given name,
\* and the extra codes are never requested.
C2_OnlyNamedCodesFetched ==
    (pc = "returned" /\ FewerNames) =>
        /\ Len(requested) = Len(hist.given)
        /\ \A j \in 1..Len(requested) :
              requested[j] = <<code_list[j], hist.given[j]>>

\* C2 amended: when get_multiple_series is called with fewer names than codes
\* and every fetch succeeds, every code is requested, none is dropped, and the
\* first len(names) codes are requested each under its given name.
C2_EveryCodeFetched ==
    (pc = "returned" /\ FewerNames) =>
        /\ Len(requested) = Len(code_list)
        /\ \A j \in 1..Len(code_list) : requested[j][1] = code_list[j]
        /\ \A j \in 1..Len(hist.given) : requested[j][2] = hist.given[j]

\* codes=[c1,c2,c3], names=[n1,n2]: the call has returned.
C2_Witness ==
    /\ pc = "returned"
    /\ Len(code_list) = 3
    /\ Len(hist.given) = 2
    /\ requested[3][1] = code_list[3]

\* The name of the j-th request of a call given fewer names than codes.
C3_NameAt(j) ==
    IF j <= Len(hist.given) THEN hist.given[j]
    ELSE "unnamed_" \o ToString(j - Len(hist.given))

\* C3: when the code list is k > 0 entries longer than the name list, the
\* requests go to the codes in order under the given names followed by
\* unnamed_1, ..., unnamed_k, and a call that returns has requested every code.
C3_PaddedNames ==
    (InCall /\ FewerNames) =>
        /\ Len(requested) <= Len(code_list)
        /\ \A j \in 1..Len(requested) :
              requested[j] = <<code_list[j], C3_NameAt(j)>>
        /\ pc = "returned" => Len(requested) = Len(code_list)

\* One given name, three codes: the last two went out as unnamed_1, unnamed_2.
C3_Witness ==
    /\ pc = "returned"
    /\ Len(hist.given) = 1
    /\ Len(code_list) = 3
    /\ requested[2][2] = "unnamed_1"
    /\ requested[3][2] = "unnamed_2"

\* C9: the series are requested one at a time in the order of the code list; a
\* failed fetch ends the call with no table and with nothing requested after
\* the failing position; a call that returns has one column per code, in the
\* order of the codes and of the names they were requested under.
C9_SequentialAbortOnFailure ==
    InCall =>
        /\ Len(requested) <= Len(code_list)
        /\ \A j \in 1..Len(requested) : requested[j][1] = code_list[j]
        /\ pc = "loop" => Len(requested) = k /\ Len(result) = k
        /\ pc = "raised" => result = NoResult /\ Len(requested) = k + 1
        /\ pc = "returned" =>
              /\ Len(result) = Len(code_list)
              /\ Len(requested) = Len(code_list)
              /\ \A j \in 1..Len(result) : result[j] = requested[j][2]

\* The second of three fetches failed: the third code was never requested.
C9_Witness ==
    /\ pc = "raised"
    /\ Len(code_list) = 3
    /\ Len(requested) = 2
    /\ result = NoResult

\* C10 as stated: get_multiple_series leaves the caller's code list and name
\* list unchanged, and a further call with the same list objects plans the
\* same (code, name) requests as the first call did.
C10_ListsUnchanged ==
    /\ code_list = hist.codes
    /\ name_list = hist.names
    /\ InCall => Zip(code_list, names) = hist.first

-----------------------------------------------------------------------------
(* Properties of create_query_url and get_market_expectations, under         *)
(* SpecExpect                                                                *)

SevenFrequencies ==
    {"annual", "quarterly", "monthly", "inflation-12-months",
     "top5s-monthly", "top5s-annual", "institutions"}

\* C1: with one of the seven frequency categories neither function raises the
\* unknown-frequency error; with any other frequency both raise it, and
\* get_market_expectations has then issued no HTTP request.
C1_UnknownFrequencyRejected ==
    op # "none" =>
        /\ frequency \in SevenFrequencies => raised # FrequencyError
        /\ frequency \notin SevenFrequencies =>
              /\ raised = FrequencyError
              /\ http = <<>>
              /\ url = <<>>

\* get_market_expectations('weekly', ...) has raised.
C1_Witness ==
    /\ op = "get_market_expectations"
    /\ frequency = "weekly"
    /\ raised = FrequencyError

\* The clause of each argument that is given and non-empty, in the order
\* indicators, start, end.
C4_Clauses ==
    (IF Indicators.given /\ Indicators.v # <<>>
     THEN <<Join(<<" ","o","r"," ">>,
                 [j \in 1..Len(Indicators.v) |->
                    <<"I","n","d","i","c","a","d","o","r"," ","e","q"," ","'">>
                    \o Indicators.v[j] \o <<"'">>])>>
     ELSE <<>>)
    \o (IF start.given /\ start.v # <<>>
        THEN <<(<<"D","a","t","a"," ","g","e"," ","'">> \o start.v \o <<"'">>)>>
        ELSE <<>>)
    \o (IF end.given /\ end.v # <<>>
        THEN <<(<<"D","a","t","a"," ","l","e"," ","'">> \o end.v \o <<"'">>)>>
        ELSE <<>>)

\* The clauses joined by ' and ', every space replaced by %20.
C4_F == Replace(Join(<<" ","a","n","d"," ">>, C4_Clauses), <<" ">>, <<"%","2","0">>)

\* <base URL> + '?$top=100000000&$filter=' + F + '&$format=text/csv&$select=...'
C4_Expected ==
    urls_dict[frequency]
    \o
    <<"?","$","t","o","p","=","1","0","0","0","0","0","0","0","0","&","$",
      "f","i","l","t","e","r","=">>
    \o C4_F
    \o
    <<"&","$","f","o","r","m","a","t","=","t","e","x","t","/","c","s","v",
      "&","$","s","e","l","e","c","t","=","I","n","d","i","c","a","d","o",
      "r",",","D","a","t","a",",","D","a","t","a","R","e","f","e","r","e",
      "n","c","i","a",",","M","e","d","i","a",",","M","e","d","i","a","n",
      "a",",","D","e","s","v","i","o","P","a","d","r","a","o",",","M","i",
      "n","i","m","o",",","M","a","x","i","m","o",",","n","u","m","e","r",
      "o","R","e","s","p","o","n","d","e","n","t","e","s",",","b","a","s",
      "e","C","a","l","c","u","l","o">>

\* C4 as stated: for a valid frequency create_query_url returns exactly the
\* base URL, the fixed parameters and the filter F with its spaces replaced by
\* %20, and the URL holds no literal space.
C4_UrlIsAssembledText ==
    (op = "create_query_url" /\ raised = NoError) =>
        /\ url = C4_Expected
        /\ \A j \in 1..Len(url) : url[j] # " "

\* C4 amended: for a valid frequency create_query_url returns that text with,
\* after the spaces, every â replaced by %C3%A2, every çã by %C3%A7%C3%A3o and
\* every í by %C3%AD; the URL holds no literal space.
C4_UrlIsReescapedText ==
    (op = "create_query_url" /\ raised = NoError) =>
        /\ url = Replace(Replace(Replace(C4_Expected,
                    <<"â">>, <<"%","C","3","%","A","2">>),
                    <<"ç","ã">>,
                    <<"%","C","3","%","A","7","%","C","3","%","A","3","o">>),
                    <<"í">>, <<"%","C","3","%","A","D">>)
        /\ \A j \in 1..Len(url) : url[j] # " "

\* Two indicators, an empty start and a given end: the clauses are the
\* indicator clause and the end clause.
C4_Witness ==
    /\ op = "create_query_url"
    /\ raised = NoError
    /\ Indicators.given /\ Len(Indicators.v) = 2
    /\ start.given /\ start.v = <<>>
    /\ end.given /\ end.v # <<>>
    /\ Len(C4_Clauses) = 2

HexVal ==
    DigitVal @@ "A" :> 10 @@ "B" :> 11 @@ "C" :> 12 @@ "D" :> 13 @@ "E" :> 14
             @@ "F" :> 15

\* The byte written %XY at position i of s, or -1 when no escape stands there.
ByteAt(s, i) ==
    IF i + 2 <= Len(s) /\ s[i] = "%"
       /\ s[i + 1] \in DOMAIN HexVal /\ s[i + 2] \in DOMAIN HexVal
    THEN 16 * HexVal[s[i + 1]] + HexVal[s[i + 2]]
    ELSE -1

\* The character of a code point (those the inputs can yield).
Chr(cp) ==
    IF cp = 32 THEN " "
    ELSE IF cp = 226 THEN "â"
    ELSE IF cp = 227 THEN "ã"
    ELSE IF cp = 231 THEN "ç"
    ELSE IF cp = 237 THEN "í"
    ELSE "U+" \o ToString(cp)

RECURSIVE PercentDecodeFrom(_, _)
\* s[i..] with every %XY escape decoded as UTF-8 (one- and two-byte sequences).
PercentDecodeFrom(s, i) ==
    LET at == {j \in i..Len(s) : ByteAt(s, j) >= 0}
    IN  IF at = {} THEN SubSeq(s, i, Len(s))
        ELSE LET j == CHOOSE m \in at : \A n \in at : m <= n
                 b1 == ByteAt(s, j)
                 b2 == ByteAt(s, j + 3)
             IN  IF b1 \in 192..223 /\ b2 \in 128..191
                 THEN SubSeq(s, i, j - 1)
                      \o <<Chr((b1 - 192) * 64 + (b2 - 128))>>
                      \o PercentDecodeFrom(s, j + 6)
                 ELSE SubSeq(s, i, j - 1) \o <<Chr(b1)>>
                      \o PercentDecodeFrom(s, j + 3)

PercentDecode(s) == PercentDecodeFrom(s, 1)

\* C5 as stated: percent-decoding the returned URL as UTF-8 gives the text the
\* URL had before â, çã and í were re-escaped (its %20 decoded likewise).
C5_ReescapeRoundTrips ==
    (op = "create_query_url" /\ raised = NoError) =>
        PercentDecode(url)
            = PercentDecode(url_assembled(frequency, Indicators, start, end))

\* The first day of quarter n.
C8_FirstMonth == <<1, 4, 7, 10>>

\* A raw reference value '<n>/<year>' with n in 1..4 and a four-digit year.
C8_IsQuarterText(s) ==
    /\ Len(s) = 6
    /\ s[1] \in {"1", "2", "3", "4"}
    /\ s[2] = "/"
    /\ IsDigits(SubSeq(s, 3, 6))

\* C8: get_market_expectations with frequency 'quarterly' turns every raw
\* reference value '<n>/<year>' (n in 1..4) into the first day of quarter n of
\* that year; with a frequency other than monthly, annual and quarterly the
\* column DataReferencia is returned as received.
C8_ReferenceDates ==
    (op = "get_market_expectations"
        /\ raised \notin {FrequencyError, TransportError}) =>
        /\ (frequency = "quarterly"
            /\ \A j \in 1..Len(raw_ref) : C8_IsQuarterText(raw_ref[j])) =>
              /\ raised = NoError
              /\ Len(df_ref) = Len(raw_ref)
              /\ \A j \in 1..Len(raw_ref) :
                    df_ref[j] = <<ToInt(SubSeq(raw_ref[j], 3, 6)),
                                  C8_FirstMonth[DigitVal[raw_ref[j][1]]], 1>>
        /\ frequency \notin {"monthly", "annual", "quarterly"} =>
              /\ raised = NoError
              /\ df_ref = raw_ref

\* '2/2021' under 'quarterly' came back as 2021-04-01.
C8_Witness ==
    /\ op = "get_market_expectations"
    /\ frequency = "quarterly"
    /\ raw_ref = << <<"2","/","2","0","2","1">> >>
    /\ df_ref = << <<2021, 4, 1>> >>

-----------------------------------------------------------------------------
(* Properties of the transforms, under SpecTransform *)

\* The rows of a column whose value is not missing.
C6_Valid(series) == {j \in 1..Len(series) : ~IsNA(series[j].v)}

\* The label of the first non-missing value of a column.
C6_FirstLabel(series) ==
    series[CHOOSE j \in C6_Valid(series) : \A i \in C6_Valid(series) : j <= i].t

Positive(x) == (x.k = "num" /\ x.n > 0) \/ (x.k = "inf" /\ x.n > 0)

\* C6 as stated: mom2index of any Series or DataFrame returns; in its result
\* each column holds 1 at that column's first non-missing input; and when every
\* 1 + mom of a column is positive, every non-missing entry of the result's
\* column is positive.
C6_RebasedToOne ==
    top = "mom2index" =>
        /\ traised = NoError
        /\ \A c \in DOMAIN data.cols :
              /\ C6_Valid(data.cols[c]) # {} =>
                    At(tout.cols[c], C6_FirstLabel(data.cols[c])) = Whole(1)
              /\ (\A j \in C6_Valid(data.cols[c]) :
                        Positive(AddInt(data.cols[c][j].v, 1))) =>
                    \A j \in 1..Len(tout.cols[c]) :
                        IsNA(tout.cols[c][j].v) \/ Positive(tout.cols[c][j].v)

\* C7: index2yoy(s) has the rows of s; its value is missing in each of the
\* first twelve rows and is s[t]/s[t-12] - 1 in every later row t; and mom2yoy(s)
\* is index2yoy(mom2index(s)), raising where mom2index raises.
C7_YearOverYear ==
    /\ top = "index2yoy" =>
          /\ traised = NoError
          /\ DOMAIN tout.cols = DOMAIN data.cols
          /\ \A c \in DOMAIN data.cols :
                /\ Len(tout.cols[c]) = Len(data.cols[c])
                /\ \A j \in 1..Len(data.cols[c]) :
                      /\ tout.cols[c][j].t = data.cols[c][j].t
                      /\ j <= 12 => IsNA(tout.cols[c][j].v)
                      /\ j > 12 =>
                            tout.cols[c][j].v
                                = AddInt(Div(data.cols[c][j].v,
                                             data.cols[c][j - 12].v), -1)
    /\ top = "mom2yoy" =>
          /\ traised = mom2index(data).raised
          /\ traised = NoError => tout = index2yoy(mom2index(data).out)

\* A series of thirteen rows whose last value is 0 and whose first is 2: the
\* year-over-year change of row 13 is -1.
C7_Witness ==
    /\ top = "index2yoy"
    /\ data.kind = "series"
    /\ Len(data.cols["value"]) = 13
    /\ data.cols["value"][1].v = Whole(2)
    /\ tout.cols["value"][13].v = Whole(-1)

====
